---- MODULE Spec2Model ----
(***************************************************************************)
(* LLMGrader of text_to_image/fkd_diffusers/llm_grading.py.                *)
(*                                                                         *)
(* One grader object (client, generation configuration, supported          *)
(* metrics) serves score calls one at a time.  A call validates the metric *)
(* name, wraps single items into lists, zips prompts with images, turns    *)
(* every pair into a text part and a PNG image part, sends one request to  *)
(* the scoring model and returns parsed[0][metric]["score"].               *)
(*                                                                         *)
(* Scores are floats in the program; the model draws them from the whole   *)
(* numbers, inside and outside the rubric's range 0..10: score copies the  *)
(* number it finds and computes nothing with it.                           *)
(***************************************************************************)
EXTENDS Integers, Sequences, FiniteSets, TLC

VARIABLES
    grader,     \* the LLMGrader object: client, generation_config, supported_metrics
    backend,    \* which deterministic scoring-model mock answers the requests
    pc,         \* "ready" | "awaiting" (request in flight) | "done" (call ended)
    call,       \* arguments of the score call in progress
    inputs,     \* local `inputs` of score: the parts assembled so far
    requests,   \* generate_content requests issued by the call in progress
    response,   \* what generate_content gave back to the call in progress
    outcome,    \* how the call ended: a returned value or a raised error
    probe,      \* history: the argument tuple whose calls are compared
    first       \* history: request and outcome of the first call made with probe

vars == <<grader, backend, pc, call, inputs, requests, response, outcome, probe, first>>

-----------------------------------------------------------------------------
(* Bounds of the model *)

\* longest list of images / prompts passed to score
MaxLen == 2

-----------------------------------------------------------------------------
(* Program constants *)

\* default of max_new_tokens
DefaultMaxNewTokens == 300

\* seed of the generation configuration
Seed == 1994

\* the rubric's score range
MinScore == 0

MaxScore == 10

SupportedMetrics ==
    << "accuracy_to_prompt", "creativity_and_originality",
       "visual_quality_and_realism", "consistency_and_cohesion",
       "emotional_or_thematic_resonance", "overall_score" >>

DefaultMetric == "overall_score"

ModelName == "gemini-2.0-flash"

\* load_gemini_client: the fixed generation configuration
GenerationConfig ==
    [ system_instruction |-> "VERIFIER_PROMPT",
      response_mime_type |-> "application/json",
      response_schema    |-> "list[Grading]",
      seed               |-> Seed ]

\* LLMGrader.__init__
NewGrader ==
    [ client            |-> "genai.Client",
      generation_config |-> GenerationConfig,
      supported_metrics |-> SupportedMetrics ]

-----------------------------------------------------------------------------
(* Values passed to score *)

Range(s) == { s[i] : i \in DOMAIN s }

Min(a, b) == IF a <= b THEN a ELSE b

\* PIL images: a colour mode and a pixel payload; a "truncated" payload is an
\* image whose data cannot be loaded, so convert("RGB") raises.
ImageValues ==
    { [mode |-> "RGB",  pixels |-> "a"],
      [mode |-> "RGBA", pixels |-> "b"],
      [mode |-> "P",    pixels |-> "truncated"] }

PromptValues == { "a red circle", "a blue square" }

NoImage == [mode |-> "", pixels |-> ""]

NoPrompt == ""

SeqsUpTo(S, n) == UNION { [1..k -> S] : k \in 0..n }

\* an argument is one item (isList = FALSE) or a Python list of items
Single(x) == [isList |-> FALSE, item |-> x, items |-> <<>>]

List(s, none) == [isList |-> TRUE, item |-> none, items |-> s]

ImageArgs ==
    { Single(x) : x \in ImageValues }
        \cup { List(s, NoImage) : s \in SeqsUpTo(ImageValues, MaxLen) }

PromptArgs ==
    { Single(x) : x \in PromptValues }
        \cup { List(s, NoPrompt) : s \in SeqsUpTo(PromptValues, MaxLen) }

\* the caller leaves metric_to_chase out
Omitted == "<omitted>"

MetricArgs == Range(SupportedMetrics) \cup { "aesthetic_score", Omitted }

MaxNewTokensArgs == { DefaultMaxNewTokens, 50 }

Calls ==
    [ images : ImageArgs, prompts : PromptArgs,
      metric_to_chase : MetricArgs, max_new_tokens : MaxNewTokensArgs ]

NoCall ==
    [ images |-> List(<<>>, NoImage), prompts |-> List(<<>>, NoPrompt),
      metric_to_chase |-> "", max_new_tokens |-> 0 ]

-----------------------------------------------------------------------------
(* convert_to_bytes and prepare_inputs *)

NoBytes == [format |-> "", mode |-> "", pixels |-> ""]

Decodable(image) == image.pixels # "truncated"

\* image.convert("RGB"): the pixels in three-channel mode
ConvertRGB(image) == [mode |-> "RGB", pixels |-> image.pixels]

\* image.save(buffer, format="PNG"); buffer.getvalue()
SavePNG(image) == [format |-> "PNG", mode |-> image.mode, pixels |-> image.pixels]

convert_to_bytes_lenient(image) ==
    [ok |-> TRUE, bytes |-> SavePNG(ConvertRGB(image))]

convert_to_bytes(image) ==
    IF Decodable(image)
    THEN [ok |-> TRUE, bytes |-> SavePNG(ConvertRGB(image))]
    ELSE [ok |-> FALSE, bytes |-> NoBytes]

\* types.Part.from_text(text=...)
PartFromText(text) ==
    [kind |-> "text", text |-> text, data |-> NoBytes, mime_type |-> ""]

\* types.Part.from_bytes(data=..., mime_type=...)
PartFromBytes(data, mime_type) ==
    [kind |-> "bytes", text |-> "", data |-> data, mime_type |-> mime_type]

prepare_inputs_image_first(prompt, image) ==
    LET b == convert_to_bytes(image)
    IN  IF b.ok
        THEN [ok |-> TRUE,
              parts |-> << PartFromBytes(b.bytes, "image/png"), PartFromText(prompt) >>]
        ELSE [ok |-> FALSE, parts |-> <<>>]

prepare_inputs(prompt, image) ==
    LET b == convert_to_bytes(image)
    IN  IF b.ok
        THEN [ok |-> TRUE,
              parts |-> << PartFromText(prompt), PartFromBytes(b.bytes, "image/png") >>]
        ELSE [ok |-> FALSE, parts |-> <<>>]

-----------------------------------------------------------------------------
(* The steps of LLMGrader.score *)

\* the parameter metric_to_chase="overall_score" bound at the call
metric_of(c) ==
    IF c.metric_to_chase = Omitted THEN DefaultMetric ELSE c.metric_to_chase

metric_supported_any(metric_to_chase, supported_metrics) == TRUE

\* metric_to_chase in self.supported_metrics
metric_supported(metric_to_chase, supported_metrics) ==
    metric_to_chase \in Range(supported_metrics)

\* [x] if not isinstance(x, list) else x
as_list(x) == IF ~x.isList THEN <<x.item>> ELSE x.items

\* zip(prompts, images): stops at the shorter of the two
zip(prompts, images) ==
    [ i \in 1..Min(Len(prompts), Len(images)) |-> <<prompts[i], images[i]>> ]

\* the loop of score from pair i on: inputs.extend(prepare_inputs(...)) per
\* pair; a failing conversion raises out of the loop with the parts so far
RECURSIVE assemble(_, _, _)
assemble(pairs, i, acc) ==
    IF i > Len(pairs)
    THEN [ok |-> TRUE, inputs |-> acc]
    ELSE LET r == prepare_inputs(pairs[i][1], pairs[i][2])
         IN  IF r.ok
             THEN assemble(pairs, i + 1, acc \o r.parts)
             ELSE [ok |-> FALSE, inputs |-> acc]

request_config_with_tokens(generation_config, max_new_tokens) ==
    [ system_instruction |-> generation_config.system_instruction,
      response_mime_type |-> generation_config.response_mime_type,
      response_schema    |-> generation_config.response_schema,
      seed               |-> generation_config.seed,
      max_output_tokens  |-> max_new_tokens ]

\* config=self.generation_config: max_new_tokens is not part of it
request_config(generation_config, max_new_tokens) == generation_config

\* the keyword arguments of client.models.generate_content
Request(parts, config) ==
    [ model    |-> ModelName,
      contents |-> [parts |-> parts, role |-> "user"],
      config   |-> config ]

generate_content_per_pair(parts, config) ==
    [ i \in 1..(Len(parts) \div 2) |-> Request(SubSeq(parts, 2 * i - 1, 2 * i), config) ]

\* the requests score issues for the assembled parts: one, after the loop
generate_content(parts, config) == << Request(parts, config) >>

score_self_reseeded(self) ==
    [ self EXCEPT !.generation_config.seed = IF @ = Seed THEN Seed + 1 ELSE Seed ]

\* the grader object after a score call: score assigns no attribute of self
score_self(self) == self

-----------------------------------------------------------------------------
(* The scoring model and the extraction of the metric *)

Score(value, explanation) == [score |-> value, explanation |-> explanation]

\* three gradings: Grading(k) maps each of the six keys to a Score
GradingA ==
    [ m \in Range(SupportedMetrics) |->
        CASE m = "accuracy_to_prompt"              -> Score(9, "matches")
          [] m = "creativity_and_originality"      -> Score(3, "literal")
          [] m = "visual_quality_and_realism"      -> Score(4, "blurry")
          [] m = "consistency_and_cohesion"        -> Score(5, "mixed")
          [] m = "emotional_or_thematic_resonance" -> Score(6, "calm")
          [] OTHER                                 -> Score(7, "good") ]

GradingB ==
    [ m \in Range(SupportedMetrics) |->
        CASE m = "accuracy_to_prompt"              -> Score(0, "unrelated")
          [] m = "creativity_and_originality"      -> Score(10, "novel")
          [] m = "visual_quality_and_realism"      -> Score(2, "noisy")
          [] m = "consistency_and_cohesion"        -> Score(8, "coherent")
          [] m = "emotional_or_thematic_resonance" -> Score(1, "flat")
          [] OTHER                                 -> Score(5, "average") ]

\* conforms to the response schema (score: float), not to the rubric's range
GradingC ==
    [ m \in Range(SupportedMetrics) |->
        CASE m = "accuracy_to_prompt"              -> Score(11, "beyond")
          [] m = "creativity_and_originality"      -> Score(0 - 1, "negative")
          [] m = "visual_quality_and_realism"      -> Score(5, "fine")
          [] m = "consistency_and_cohesion"        -> Score(12, "beyond")
          [] m = "emotional_or_thematic_resonance" -> Score(0 - 2, "negative")
          [] OTHER                                 -> Score(13, "beyond") ]

\* what generate_content can give back: it raises, or it returns a response
\* whose .parsed is None (the text did not parse) or a list of gradings
Raised == [kind |-> "raised", parsed |-> <<>>]

Unparsed == [kind |-> "unparsed", parsed |-> <<>>]

Parsed(gradings) == [kind |-> "parsed", parsed |-> gradings]

NoResponse == [kind |-> "none", parsed |-> <<>>]

Responses ==
    << Parsed(<<GradingA>>), Parsed(<<>>), Parsed(<<GradingB, GradingA>>),
       Raised, Parsed(<<GradingC>>), Unparsed >>

Backends == 0..(Len(Responses) - 1)

\* a deterministic mock of the scoring model: the answer is a function of the
\* request (of its number of pairs), and every mock of Backends is a
\* different function
Respond(b, request) ==
    Responses[((b + (Len(request.contents.parts) \div 2)) % Len(Responses)) + 1]

Return(value) == [kind |-> "return", value |-> value, error |-> ""]

Raise(error) == [kind |-> "raise", value |-> 0, error |-> error]

NoOutcome == [kind |-> "none", value |-> 0, error |-> ""]

extract_last(resp, metric_to_chase) ==
    IF resp.kind = "raised" THEN Raise("APIError")
    ELSE IF resp.kind = "unparsed" THEN Raise("TypeError")
    ELSE IF Len(resp.parsed) = 0 THEN Raise("IndexError")
    ELSE IF metric_to_chase \notin DOMAIN resp.parsed[Len(resp.parsed)] THEN Raise("KeyError")
    ELSE Return(resp.parsed[Len(resp.parsed)][metric_to_chase].score)

\* return response.parsed[0][metric_to_chase]["score"], with the exceptions
\* Python raises on the way: the one generate_content raised, None is not
\* subscriptable, list index out of range, missing key
extract(resp, metric_to_chase) ==
    IF resp.kind = "raised" THEN Raise("APIError")
    ELSE IF resp.kind = "unparsed" THEN Raise("TypeError")
    ELSE IF Len(resp.parsed) = 0 THEN Raise("IndexError")
    ELSE IF metric_to_chase \notin DOMAIN resp.parsed[1] THEN Raise("KeyError")
    ELSE Return(resp.parsed[1][metric_to_chase].score)

-----------------------------------------------------------------------------
(* History kept for comparing calls *)

ImageA == [mode |-> "RGB", pixels |-> "a"]

ImageB == [mode |-> "RGBA", pixels |-> "b"]

Truncated == [mode |-> "P", pixels |-> "truncated"]

\* the argument tuples whose repeated calls are compared
Probes ==
    { [ images |-> Single(ImageA), prompts |-> Single("a red circle"),
        metric_to_chase |-> Omitted, max_new_tokens |-> DefaultMaxNewTokens ],
      [ images |-> List(<<ImageA, ImageB>>, NoImage),
        prompts |-> List(<<"a red circle", "a blue square">>, NoPrompt),
        metric_to_chase |-> "accuracy_to_prompt", max_new_tokens |-> 50 ],
      [ images |-> List(<<ImageB, Truncated>>, NoImage),
        prompts |-> List(<<"a blue square", "a red circle">>, NoPrompt),
        metric_to_chase |-> DefaultMetric, max_new_tokens |-> DefaultMaxNewTokens ],
      [ images |-> Single(ImageB), prompts |-> List(<<"a blue square">>, NoPrompt),
        metric_to_chase |-> "aesthetic_score", max_new_tokens |-> DefaultMaxNewTokens ] }

NotSeen == [seen |-> FALSE, requests |-> <<>>, outcome |-> NoOutcome]

-----------------------------------------------------------------------------
(* The state machine *)

Init ==
    /\ grader = NewGrader
    /\ backend \in Backends
    /\ pc = "ready"
    /\ call = NoCall
    /\ inputs = <<>>
    /\ requests = <<>>
    /\ response = NoResponse
    /\ outcome = NoOutcome
    /\ probe \in Probes
    /\ first = NotSeen

\* score(images, prompts, metric_to_chase, max_new_tokens) up to the point
\* where it raises or has handed its request to generate_content
ScoreBegin(c) ==
    /\ call' = c
    /\ response' = NoResponse
    /\ grader' = score_self(grader)
    /\ IF ~metric_supported(metric_of(c), grader.supported_metrics)
       THEN /\ pc' = "done"
            /\ outcome' = Raise("ValueError")
            /\ inputs' = <<>>
            /\ requests' = <<>>
       ELSE LET a == assemble(zip(as_list(c.prompts), as_list(c.images)), 1, <<>>)
            IN  IF ~a.ok
                THEN /\ pc' = "done"
                     /\ outcome' = Raise("OSError")
                     /\ inputs' = a.inputs
                     /\ requests' = <<>>
                ELSE /\ pc' = "awaiting"
                     /\ outcome' = NoOutcome
                     /\ inputs' = a.inputs
                     /\ requests' =
                            generate_content(a.inputs,
                                request_config(grader.generation_config, c.max_new_tokens))
    /\ UNCHANGED <<backend, probe, first>>

\* generate_content answers (or raises) and score extracts the metric
ScoreEnd ==
    /\ pc = "awaiting"
    /\ requests # <<>>
    /\ LET resp == Respond(backend, requests[Len(requests)])
       IN  /\ response' = resp
           /\ outcome' = extract(resp, metric_of(call))
    /\ pc' = "done"
    /\ UNCHANGED <<grader, backend, call, inputs, requests, probe, first>>

\* the caller has the result; the locals of the call are gone
Finish ==
    /\ pc = "done"
    /\ pc' = "ready"
    /\ first' = IF ~first.seen /\ call = probe
                THEN [seen |-> TRUE, requests |-> requests, outcome |-> outcome]
                ELSE first
    /\ call' = NoCall
    /\ inputs' = <<>>
    /\ requests' = <<>>
    /\ response' = NoResponse
    /\ outcome' = NoOutcome
    /\ UNCHANGED <<grader, backend, probe>>

score == pc = "ready" /\ \E c \in Calls : ScoreBegin(c)

Next == score \/ ScoreEnd \/ Finish

Spec == Init /\ [][Next]_vars
-----------------------------------------------------------------------------
(* What the claims speak of, read off the arguments of the call *)

\* the prompts and images handed to the call, one item counting as one
GivenPrompts == IF call.prompts.isList THEN call.prompts.items ELSE <<call.prompts.item>>

GivenImages == IF call.images.isList THEN call.images.items ELSE <<call.images.item>>

\* the number of (prompt, image) pairs the call forms
NumPairs == Min(Len(GivenPrompts), Len(GivenImages))

\* the metric the call asks for
AskedMetric == IF call.metric_to_chase = Omitted THEN "overall_score" ELSE call.metric_to_chase

MetricIsSupported == AskedMetric \in Range(SupportedMetrics)

InCall == pc # "ready"

\* the parts of the request the call has sent
SentParts == requests[1].contents.parts

\* the call's arguments are the probe's, max_new_tokens aside
ProbeButTokens ==
    /\ call.images = probe.images
    /\ call.prompts = probe.prompts
    /\ call.metric_to_chase = probe.metric_to_chase
    /\ call.max_new_tokens # probe.max_new_tokens

-----------------------------------------------------------------------------
(* The claims *)

\* C1: a score call whose metric_to_chase is not one of the six supported
\* names ends in an error, and at no point of the call is a request issued
\* to the scoring model, whatever the images and prompts.
UnsupportedMetricRaisesBeforeRequest ==
    (InCall /\ ~MetricIsSupported)
        => /\ pc = "done"
           /\ outcome.kind = "raise"
           /\ requests = <<>>
           /\ response = NoResponse

UnsupportedMetricCase ==
    /\ pc = "done"
    /\ call.metric_to_chase = "aesthetic_score"
    /\ outcome = Raise("ValueError")
    /\ NumPairs = 2

\* C2: when the response holds an empty grading sequence, score raises
\* MalformedResponseError; it neither returns nor fails with an index fault.
EmptyResponseRaisesMalformedResponse ==
    (pc = "done" /\ response.kind = "parsed" /\ response.parsed = <<>>)
        => /\ outcome.kind = "raise"
           /\ outcome.error = "MalformedResponseError"
           /\ outcome.error # "IndexError"

\* C3: for a supported metric m (overall_score when the argument is left
\* out) and a non-empty response sequence, score returns exactly the score
\* under key m of element 0 of the response.
ReturnsMetricOfFirstGrading ==
    (pc = "done" /\ response.kind = "parsed" /\ response.parsed # <<>>)
        => /\ MetricIsSupported
           /\ outcome = Return(response.parsed[1][AskedMetric].score)

FirstGradingCase ==
    /\ pc = "done"
    /\ call.metric_to_chase = Omitted
    /\ Len(response.parsed) = 2
    /\ response.parsed[1]["overall_score"].score # response.parsed[2]["overall_score"].score
    /\ outcome = Return(5)

\* C4: in every call that reaches the request, the number of pairs submitted
\* equals both the number of prompts and the number of images supplied.
PairsCoverAllPromptsAndImages ==
    (InCall /\ requests # <<>>)
        => /\ Len(SentParts) = 2 * Len(GivenPrompts)
           /\ Len(SentParts) = 2 * Len(GivenImages)

\* C5: the parts sent in one request are, for the N pairs in pair order, the
\* text part of prompt i followed by the PNG image part of image i: 2N parts,
\* never reordered or interleaved across pairs.
PartsAreTextThenImagePerPair ==
    (InCall /\ requests # <<>>)
        => /\ Len(SentParts) = 2 * NumPairs
           /\ \A i \in 1..NumPairs :
                /\ SentParts[2 * i - 1].kind = "text"
                /\ SentParts[2 * i - 1].text = GivenPrompts[i]
                /\ SentParts[2 * i].kind = "bytes"
                /\ SentParts[2 * i].mime_type = "image/png"
                /\ SentParts[2 * i].data =
                       [format |-> "PNG", mode |-> "RGB", pixels |-> GivenImages[i].pixels]

TwoPairsSentCase ==
    /\ pc = "awaiting"
    /\ NumPairs = 2
    /\ GivenPrompts[1] # GivenPrompts[2]
    /\ GivenImages[1] # GivenImages[2]
    /\ Len(SentParts) = 4

\* C6: a call with a supported metric and encodable images issues exactly one
\* request, for any number of pairs; a failed request is surfaced as the
\* call's error without a second request, and no value is returned without
\* a request having been answered.
ExactlyOneRequestPerCall ==
    /\ (InCall /\ MetricIsSupported
           /\ \A i \in 1..NumPairs : GivenImages[i].pixels # "truncated")
          => Len(requests) = 1
    /\ (pc = "done" /\ response.kind = "raised")
          => (outcome.kind = "raise" /\ Len(requests) = 1)
    /\ outcome.kind = "return"
          => (Len(requests) = 1 /\ response.kind = "parsed")
    /\ Len(requests) <= 1

FailedRequestCase ==
    /\ pc = "done"
    /\ response.kind = "raised"
    /\ outcome = Raise("APIError")
    /\ NumPairs = 2
    /\ Len(requests) = 1

\* C7: if the image of any pair of the batch cannot be converted, score ends
\* in an error and no request is sent, not even one with the pairs before
\* the offending one.
BadImageAbortsWholeBatch ==
    (InCall /\ \E i \in 1..NumPairs : GivenImages[i].pixels = "truncated")
        => /\ pc = "done"
           /\ outcome.kind = "raise"
           /\ requests = <<>>

BadSecondImageCase ==
    /\ pc = "done"
    /\ MetricIsSupported
    /\ NumPairs = 2
    /\ GivenImages[1].pixels # "truncated"
    /\ GivenImages[2].pixels = "truncated"
    /\ Len(inputs) = 2
    /\ outcome = Raise("OSError")

\* C8: a call with a supported metric and a single (prompt, image) pair that
\* returns normally returns a number in the closed range [0, 10].
ReturnedScoreWithinRange ==
    (pc = "done" /\ outcome.kind = "return" /\ MetricIsSupported /\ NumPairs = 1)
        => (MinScore <= outcome.value /\ outcome.value <= MaxScore)

\* C9: score leaves the grader as constructed, and a call with the same
\* images, prompts, metric and max_new_tokens as an earlier call, whatever
\* calls came in between, sends the same request and ends the same way.
RepeatedCallSameRequestAndOutcome ==
    /\ grader = NewGrader
    /\ (InCall /\ first.seen /\ call = probe /\ requests # <<>>)
          => requests = first.requests
    /\ (pc = "done" /\ first.seen /\ call = probe)
          => (requests = first.requests /\ outcome = first.outcome)

RepeatedCallCase ==
    /\ pc = "done"
    /\ first.seen
    /\ call = probe
    /\ NumPairs = 2
    /\ outcome.kind = "return"

\* C10: a call that differs from an earlier call only in max_new_tokens sends
\* the same request and, the backend answering alike, ends the same way.
MaxNewTokensChangesNothing ==
    /\ (InCall /\ first.seen /\ ProbeButTokens /\ requests # <<>>)
          => requests = first.requests
    /\ (pc = "done" /\ first.seen /\ ProbeButTokens)
          => (requests = first.requests /\ outcome = first.outcome)

OtherMaxNewTokensCase ==
    /\ pc = "done"
    /\ first.seen
    /\ ProbeButTokens
    /\ Len(requests) = 1
    /\ outcome.kind = "return"
====
